---- MODULE Spec2Model ----
(***************************************************************************)
(* proof_fixture_utils: create_proof_fixture writes one JSON fixture file  *)
(* per proof system under ./fixtures.  The model keeps the file system     *)
(* (the fixtures path and the files below it, as byte strings), the        *)
(* position and locals of every running call, and standard output.  JSON   *)
(* texts are sequences of one-character strings, produced and parsed the   *)
(* way serde_json produces and parses them for these derived types.        *)
(***************************************************************************)
EXTENDS Integers, Sequences, FiniteSets, TLC

VARIABLES
    dir,            \* what the path ./fixtures is: "absent", "dir" or "file"
    files,          \* name in fixtures/ -> [exists, data]
    pc,             \* per call site: position inside create_proof_fixture
    args,           \* per call site: the arguments of the current/latest call
    fixture_path,   \* per call site: local `fixture_path` (file name part)
    json,           \* per call site: local `json`
    off,            \* per call site: offset of the descriptor fs::write holds
    result,         \* per call site: "none", "Ok" or "Err" of the latest call
    errAt,          \* per call site: the step whose error was propagated
    stdout,         \* lines printed by println!, as the paths they name
    calls,          \* number of calls started
    pre,            \* history: files when the current/latest call started
    preOut,         \* history: stdout when the current/latest call started
    dirSeen,        \* history: dir when the call ran create_dir_all
    prevCall,       \* history: the call completed before the latest one
    writeFailed,    \* history: some fs::write has returned an error
    finished,       \* history: call sites in the order their write completed
    openSaw,        \* history: per call site, the sites in `finished` at open
    t_pc,           \* unit tests: position
    t_fixture,      \* unit tests: the value serialized
    t_json,         \* unit tests: local `json`
    t_deserialized  \* unit tests: local `deserialized`

fsVars == <<dir, files, pc, args, fixture_path, json, off, result, errAt,
            stdout, calls, pre, preOut, dirSeen, prevCall, writeFailed,
            finished, openSaw>>
rtVars == <<t_pc, t_fixture, t_json, t_deserialized>>
vars == <<fsVars, rtVars>>

(***************************************************************************)
(* Bounds                                                                  *)
(***************************************************************************)
MaxLen == 1         \* longest byte vector the round-trip tests draw
MaxCalls == 3       \* calls a sequential run makes
ShortWrite == 48    \* bytes a write(2) transfers when it transfers less than all

\* u8 samples: one, two and three decimal digits, and both ends of the range.
SampleBytes == {0, 42, 255}

RECURSIVE SeqsUpTo(_, _)
SeqsUpTo(S, n) ==
    IF n = 0 THEN {<<>>}
    ELSE LET shorter == SeqsUpTo(S, n - 1)
         IN  shorter \cup {Append(s, b) : s \in {x \in shorter : Len(x) = n - 1}, b \in S}

ByteSeqs == SeqsUpTo(SampleBytes, MaxLen)

(***************************************************************************)
(* Types                                                                   *)
(***************************************************************************)
ProofSystem == {"Plonk", "Groth16", "STARK"}

ProofFixture(proof, public_values, vk, system) ==
    [proof |-> proof, public_values |-> public_values, vk |-> vk, system |-> system]

(***************************************************************************)
(* Serialize (serde derive + serde_json formatters)                        *)
(***************************************************************************)
QUOTE == "\""
NL == "\n"

DigitChar(d) == <<"0", "1", "2", "3", "4", "5", "6", "7", "8", "9">>[d + 1]

\* itoa: decimal, no sign, no leading zeros.
RECURSIVE FormatU8(_)
FormatU8(n) ==
    IF n < 10 THEN <<DigitChar(n)>>
    ELSE FormatU8(n \div 10) \o <<DigitChar(n % 10)>>

\* A unit variant is written as its name.
VariantNameStark(system) ==
    CASE system = "Plonk" -> <<"P", "l", "o", "n", "k">>
      [] system = "Groth16" -> <<"G", "r", "o", "t", "h", "1", "6">>
      [] system = "STARK" -> <<"S", "t", "a", "r", "k">>

VariantName(system) ==
    CASE system = "Plonk" -> <<"P", "l", "o", "n", "k">>
      [] system = "Groth16" -> <<"G", "r", "o", "t", "h", "1", "6">>
      [] system = "STARK" -> <<"S", "T", "A", "R", "K">>

FieldName(field) ==
    CASE field = "proof" -> <<"p", "r", "o", "o", "f">>
      [] field = "public_values" ->
            <<"p", "u", "b", "l", "i", "c", "_", "v", "a", "l", "u", "e", "s">>
      [] field = "vk" -> <<"v", "k">>
      [] field = "system" -> <<"s", "y", "s", "t", "e", "m">>

Indent(level) == [i \in 1..(2 * level) |-> " "]

\* What precedes an array element or an object key (CompactFormatter: a comma
\* between values; PrettyFormatter: a line break and the indentation too).
BeginValue(first, pretty, level) ==
    IF pretty
    THEN (IF first THEN <<NL>> ELSE <<",", NL>>) \o Indent(level)
    ELSE (IF first THEN <<>> ELSE <<",">>)

\* What precedes the closing bracket of a non-empty array or object.
EndValues(pretty, level) == IF pretty THEN <<NL>> \o Indent(level) ELSE <<>>

RECURSIVE SerializeElements(_, _, _, _)
SerializeElements(v, i, pretty, level) ==
    IF i > Len(v) THEN <<>>
    ELSE BeginValue(i = 1, pretty, level) \o FormatU8(v[i])
            \o SerializeElements(v, i + 1, pretty, level)

\* Vec<u8> is written as a JSON array of numbers; an empty one as "[]".
SerializeBytes(v, pretty, level) ==
    IF v = <<>> THEN <<"[", "]">>
    ELSE <<"[">> \o SerializeElements(v, 1, pretty, level + 1)
            \o EndValues(pretty, level) \o <<"]">>

SerializeString(chars) == <<QUOTE>> \o chars \o <<QUOTE>>

SerializeKey(field, first, pretty) ==
    BeginValue(first, pretty, 1) \o SerializeString(FieldName(field))
        \o (IF pretty THEN <<":", " ">> ELSE <<":">>)

\* #[derive(Serialize)] of ProofFixture: the fields in declaration order.
SerializeFixture(f, pretty) ==
    <<"{">>
        \o SerializeKey("proof", TRUE, pretty) \o SerializeBytes(f.proof, pretty, 1)
        \o SerializeKey("public_values", FALSE, pretty)
        \o SerializeBytes(f.public_values, pretty, 1)
        \o SerializeKey("vk", FALSE, pretty) \o SerializeBytes(f.vk, pretty, 1)
        \o SerializeKey("system", FALSE, pretty)
        \o SerializeString(VariantName(f.system))
        \o EndValues(pretty, 0) \o <<"}">>

to_string(f) == SerializeFixture(f, FALSE)
to_string_pretty(f) == SerializeFixture(f, TRUE)
\* The Result of to_string_pretty: writing to memory, string keys and values
\* of these types give the serializer nothing to fail on.
to_string_pretty_result(f) == [ok |-> TRUE, text |-> to_string_pretty(f)]
to_string_system(system) == SerializeString(VariantName(system))

(***************************************************************************)
(* Deserialize (serde derive + serde_json reader)                          *)
(***************************************************************************)
EOF == "EOF"
CharAt(s, i) == IF i \in 1..Len(s) THEN s[i] ELSE EOF

IsWs(c) == c \in {" ", NL, "\t"}
IsDigit(c) == c \in {"0", "1", "2", "3", "4", "5", "6", "7", "8", "9"}
DigitVal(c) ==
    CASE c = "0" -> 0 [] c = "1" -> 1 [] c = "2" -> 2 [] c = "3" -> 3
      [] c = "4" -> 4 [] c = "5" -> 5 [] c = "6" -> 6 [] c = "7" -> 7
      [] c = "8" -> 8 [] c = "9" -> 9

Failed == [ok |-> FALSE, val |-> <<>>, next |-> 0]
Parsed(v, n) == [ok |-> TRUE, val |-> v, next |-> n]

RECURSIVE SkipWs(_, _)
SkipWs(s, i) == IF IsWs(CharAt(s, i)) THEN SkipWs(s, i + 1) ELSE i

\* Digits from i on; the value saturates above the u8 range.
RECURSIVE ScanDigits(_, _, _)
ScanDigits(s, i, acc) ==
    IF IsDigit(CharAt(s, i))
    THEN LET v == acc * 10 + DigitVal(s[i])
         IN  ScanDigits(s, i + 1, IF v > 255 THEN 256 ELSE v)
    ELSE [val |-> acc, next |-> i]

\* A JSON number read as u8: an integer without sign, fraction, exponent or
\* leading zero, at most 255.
ParseU8(s, i) ==
    IF ~IsDigit(CharAt(s, i)) THEN Failed
    ELSE IF s[i] = "0" /\ IsDigit(CharAt(s, i + 1)) THEN Failed
    ELSE LET d == ScanDigits(s, i, 0)
         IN  IF CharAt(s, d.next) \in {".", "e", "E"} \/ d.val > 255 THEN Failed
             ELSE Parsed(d.val, d.next)

RECURSIVE ParseElements(_, _, _)
ParseElements(s, i, acc) ==
    LET n == ParseU8(s, i)
        k == SkipWs(s, n.next)
    IN  IF ~n.ok THEN Failed
        ELSE IF CharAt(s, k) = "," THEN ParseElements(s, SkipWs(s, k + 1), Append(acc, n.val))
        ELSE IF CharAt(s, k) = "]" THEN Parsed(Append(acc, n.val), k + 1)
        ELSE Failed

\* Vec<u8> from a JSON array of numbers.
ParseBytes(s, i) ==
    IF CharAt(s, i) # "[" THEN Failed
    ELSE LET j == SkipWs(s, i + 1)
         IN  IF CharAt(s, j) = "]" THEN Parsed(<<>>, j + 1)
             ELSE ParseElements(s, j, <<>>)

\* The characters up to the closing quote; control characters must be escaped
\* in JSON, and the texts of this program hold no escape sequence.
RECURSIVE ScanString(_, _, _)
ScanString(s, i, acc) ==
    LET c == CharAt(s, i)
    IN  IF c = QUOTE THEN Parsed(acc, i + 1)
        ELSE IF c \in {EOF, NL, "\t", "\\"} THEN Failed
        ELSE ScanString(s, i + 1, Append(acc, c))

ParseString(s, i) == IF CharAt(s, i) # QUOTE THEN Failed ELSE ScanString(s, i + 1, <<>>)

\* #[derive(Deserialize)] of ProofSystem: the variant named by the string.
VariantOf(chars) ==
    IF chars = <<"P", "l", "o", "n", "k">> THEN "Plonk"
    ELSE IF chars = <<"G", "r", "o", "t", "h", "1", "6">> THEN "Groth16"
    ELSE IF chars = <<"S", "T", "A", "R", "K">> THEN "STARK"
    ELSE "unknown"

\* #[derive(Deserialize)] of ProofFixture: the field named by the key.
FieldOf(chars) ==
    IF chars = <<"p", "r", "o", "o", "f">> THEN "proof"
    ELSE IF chars = <<"p", "u", "b", "l", "i", "c", "_", "v", "a", "l", "u", "e", "s">>
    THEN "public_values"
    ELSE IF chars = <<"v", "k">> THEN "vk"
    ELSE IF chars = <<"s", "y", "s", "t", "e", "m">> THEN "system"
    ELSE "unknown"

NoFixture ==
    [ok |-> FALSE, proof |-> <<>>, public_values |-> <<>>, vk |-> <<>>,
     system |-> "none", keys |-> <<>>]

\* The value of one member, by the field its key names.
ParseMemberValue(s, i, field) ==
    IF field = "system"
    THEN LET v == ParseString(s, i)
         IN  IF v.ok /\ VariantOf(v.val) # "unknown"
             THEN Parsed(VariantOf(v.val), v.next) ELSE Failed
    ELSE ParseBytes(s, i)

\* Members of the object from i on (i is at a key); a field given twice, a
\* trailing comma and a value of the wrong type are errors.  The texts of this
\* program hold no key but the four fields; any other key ends the parse here.
RECURSIVE ParseMembers(_, _, _)
ParseMembers(s, i, acc) ==
    LET key == ParseString(s, i)
        colon == SkipWs(s, key.next)
        field == FieldOf(key.val)
        v == ParseMemberValue(s, SkipWs(s, colon + 1), field)
        after == SkipWs(s, v.next)
        acc2 == [[acc EXCEPT ![field] = v.val] EXCEPT !.keys = Append(@, field)]
    IN  IF ~key.ok \/ CharAt(s, colon) # ":" THEN Failed
        ELSE IF field = "unknown" THEN Failed
        ELSE IF \E k \in 1..Len(acc.keys) : acc.keys[k] = field THEN Failed
        ELSE IF ~v.ok THEN Failed
        ELSE IF CharAt(s, after) = "," THEN ParseMembers(s, SkipWs(s, after + 1), acc2)
        ELSE IF CharAt(s, after) = "}" THEN Parsed(acc2, after + 1)
        ELSE Failed

AllFields == {"proof", "public_values", "vk", "system"}

\* serde_json::from_str::<ProofFixture>: one JSON object holding each field
\* once, and nothing but white space after it.
from_str(s) ==
    LET i == SkipWs(s, 1)
        j == SkipWs(s, i + 1)
        m == IF CharAt(s, j) = "}" THEN Parsed(NoFixture, j + 1)
             ELSE ParseMembers(s, j, NoFixture)
    IN  IF CharAt(s, i) # "{" \/ ~m.ok THEN NoFixture
        ELSE IF {m.val.keys[k] : k \in 1..Len(m.val.keys)} # AllFields THEN NoFixture
        ELSE IF SkipWs(s, m.next) # Len(s) + 1 THEN NoFixture
        ELSE [m.val EXCEPT !.ok = TRUE]

\* serde_json::from_str::<ProofSystem>: one JSON string naming a variant.
from_str_system(s) ==
    LET v == ParseString(s, SkipWs(s, 1))
    IN  IF v.ok /\ VariantOf(v.val) # "unknown" /\ SkipWs(s, v.next) = Len(s) + 1
        THEN [NoFixture EXCEPT !.ok = TRUE, !.system = VariantOf(v.val)]
        ELSE NoFixture

(***************************************************************************)
(* The file system and the calls                                           *)
(***************************************************************************)
Procs == {"p1", "p2"}       \* call sites that may run at the same time
SeqProcs == {"p1"}          \* the one call site of a sequential run

PlonkFile == "proof_fixture_plonk.json"
Groth16File == "proof_fixture_groth16.json"
StarkFile == "proof_fixture_STARK.json"
FixtureFiles == {PlonkFile, Groth16File, StarkFile}
\* Every name the model can tell apart in fixtures/.
Names == FixtureFiles \cup {"proof_fixture_stark.json", "README.md"}

Absent == [exists |-> FALSE, data |-> <<>>]
ReadmeFile == [exists |-> TRUE, data |-> <<"k", "e", "e", "p">>]
NUL == "NUL"                \* a byte of a hole left by a write past the end

NoArgs ==
    [proof |-> [proof |-> <<>>, public_values |-> <<>>], vk |-> [vk |-> <<>>],
     system |-> "none"]
NoCall == [args |-> NoArgs, result |-> "none"]

\* Payloads the calls draw: all empty, the unit test's, and one with an empty
\* field and bytes of one, two and three digits.
Payloads ==
    { [proof |-> <<>>, public_values |-> <<>>, vk |-> <<>>],
      [proof |-> <<1, 2, 3>>, public_values |-> <<4, 5, 6>>, vk |-> <<7, 8, 9>>],
      [proof |-> <<255>>, public_values |-> <<>>, vk |-> <<0, 42>>] }

CallArgs(pl, system) ==
    [proof |-> [proof |-> pl.proof, public_values |-> pl.public_values],
     vk |-> [vk |-> pl.vk], system |-> system]

\* fs::create_dir_all on a one-segment path: creates it, accepts a directory
\* that is already there, fails on anything else at that path.
create_dir(d) ==
    CASE d = "absent" -> [ok |-> TRUE, dir |-> "dir"]
      [] d = "dir" -> [ok |-> FALSE, dir |-> "dir"]
      [] d = "file" -> [ok |-> FALSE, dir |-> "file"]

create_dir_all(d) ==
    CASE d = "absent" -> [ok |-> TRUE, dir |-> "dir"]
      [] d = "dir" -> [ok |-> TRUE, dir |-> "dir"]
      [] d = "file" -> [ok |-> FALSE, dir |-> "file"]

\* let fixture = ProofFixture { ... }
MakeFixtureSwapped(a) ==
    ProofFixture(a.proof.public_values, a.proof.proof, a.vk.vk, a.system)

MakeFixture(a) == ProofFixture(a.proof.proof, a.proof.public_values, a.vk.vk, a.system)

\* let filename = match system { ... }
FileNameLower(system) ==
    CASE system = "Plonk" -> "proof_fixture_plonk.json"
      [] system = "Groth16" -> "proof_fixture_groth16.json"
      [] system = "STARK" -> "proof_fixture_stark.json"

FileNameShared(system) ==
    CASE system = "Plonk" -> "proof_fixture_plonk.json"
      [] system = "Groth16" -> "proof_fixture_plonk.json"
      [] system = "STARK" -> "proof_fixture_STARK.json"

FileName(system) ==
    CASE system = "Plonk" -> "proof_fixture_plonk.json"
      [] system = "Groth16" -> "proof_fixture_groth16.json"
      [] system = "STARK" -> "proof_fixture_STARK.json"

\* File::create inside fs::write: create the file or truncate it to nothing.
open_keep(f) == [exists |-> TRUE, data |-> f.data]

create_file(f) == [exists |-> TRUE, data |-> <<>>]

\* write(2) of `chunk` at offset o: bytes before and after are kept, a gap
\* between the end of the file and o reads as zero bytes.
WriteAt(data, o, chunk) ==
    LET end == o + Len(chunk)
        n == IF Len(data) > end THEN Len(data) ELSE end
    IN  [i \in 1..n |-> IF i > o /\ i <= end THEN chunk[i - o]
                        ELSE IF i <= Len(data) THEN data[i] ELSE NUL]

\* The `?` operator: the error is returned to the caller at once.
Swallow(p, step) ==
    /\ pc' = [pc EXCEPT ![p] = "idle"]
    /\ result' = [result EXCEPT ![p] = "Ok"]
    /\ errAt' = [errAt EXCEPT ![p] = step]

Propagate(p, step) ==
    /\ pc' = [pc EXCEPT ![p] = "idle"]
    /\ result' = [result EXCEPT ![p] = "Err"]
    /\ errAt' = [errAt EXCEPT ![p] = step]

\* create_proof_fixture(&proof, &vk, system) is entered.
Call(p) ==
    /\ pc[p] = "idle"
    /\ calls < MaxCalls
    /\ \E pl \in Payloads, system \in ProofSystem :
            args' = [args EXCEPT ![p] = CallArgs(pl, system)]
    /\ pc' = [pc EXCEPT ![p] = "create_dir_all"]
    /\ result' = [result EXCEPT ![p] = "none"]
    /\ errAt' = [errAt EXCEPT ![p] = "none"]
    /\ fixture_path' = [fixture_path EXCEPT ![p] = "none"]
    /\ json' = [json EXCEPT ![p] = <<>>]
    /\ off' = [off EXCEPT ![p] = 0]
    /\ calls' = calls + 1
    /\ pre' = [pre EXCEPT ![p] = files]
    /\ preOut' = [preOut EXCEPT ![p] = stdout]
    /\ dirSeen' = [dirSeen EXCEPT ![p] = "none"]
    /\ prevCall' = IF result[p] = "none" THEN prevCall
                   ELSE [args |-> args[p], result |-> result[p]]
    /\ finished' = SelectSeq(finished, LAMBDA q : q # p)
    /\ openSaw' = [openSaw EXCEPT ![p] = {}]
    /\ UNCHANGED <<dir, files, stdout, writeFailed, rtVars>>

\* fs::create_dir_all(&fixtures_dir)? succeeds.
CreateDirAllOk(p) ==
    /\ pc[p] = "create_dir_all"
    /\ create_dir_all(dir).ok
    /\ dir' = create_dir_all(dir).dir
    /\ dirSeen' = [dirSeen EXCEPT ![p] = dir]
    /\ pc' = [pc EXCEPT ![p] = "serialize"]
    /\ UNCHANGED <<files, args, fixture_path, json, off, result, errAt, stdout, calls,
                   pre, preOut, prevCall, writeFailed, finished, openSaw, rtVars>>

\* fs::create_dir_all(&fixtures_dir)? fails: something that is no directory
\* is at the path.
CreateDirAllErr(p) ==
    /\ pc[p] = "create_dir_all"
    /\ ~create_dir_all(dir).ok
    /\ dirSeen' = [dirSeen EXCEPT ![p] = dir]
    /\ Propagate(p, "create_dir_all")
    /\ UNCHANGED <<dir, files, args, fixture_path, json, off, stdout, calls,
                   pre, preOut, prevCall, writeFailed, finished, openSaw, rtVars>>

\* fs::create_dir_all(&fixtures_dir)? fails: the directory is missing and the
\* working directory refuses the mkdir.
CreateDirDenied(p) ==
    /\ pc[p] = "create_dir_all"
    /\ dir = "absent"
    /\ dirSeen' = [dirSeen EXCEPT ![p] = dir]
    /\ Propagate(p, "create_dir_all")
    /\ UNCHANGED <<dir, files, args, fixture_path, json, off, stdout, calls,
                   pre, preOut, prevCall, writeFailed, finished, openSaw, rtVars>>

\* The fixture, the file name and the JSON text: local computations; an Err
\* of to_string_pretty would be returned by its `?`.
Serialize(p) ==
    /\ pc[p] = "serialize"
    /\ fixture_path' = [fixture_path EXCEPT ![p] = FileName(args[p].system)]
    /\ LET r == to_string_pretty_result(MakeFixture(args[p]))
       IN  IF r.ok
           THEN /\ json' = [json EXCEPT ![p] = r.text]
                /\ pc' = [pc EXCEPT ![p] = "open"]
                /\ UNCHANGED <<result, errAt>>
           ELSE /\ Propagate(p, "serialize")
                /\ UNCHANGED json
    /\ UNCHANGED <<dir, files, args, off, stdout, calls, pre, preOut,
                   dirSeen, prevCall, writeFailed, finished, openSaw, rtVars>>

\* fs::write, first half: the file is created or truncated.
Open(p) ==
    /\ pc[p] = "open"
    /\ files' = [files EXCEPT ![fixture_path[p]] = create_file(@)]
    /\ off' = [off EXCEPT ![p] = 0]
    /\ openSaw' = [openSaw EXCEPT ![p] = {finished[i] : i \in 1..Len(finished)}]
    /\ pc' = [pc EXCEPT ![p] = "write"]
    /\ UNCHANGED <<dir, args, fixture_path, json, result, errAt, stdout, calls, pre,
                   preOut, dirSeen, prevCall, writeFailed, finished, rtVars>>

\* fs::write fails before the file is touched (the open is refused).
OpenErr(p) ==
    /\ pc[p] = "open"
    /\ Propagate(p, "open")
    /\ writeFailed' = TRUE
    /\ UNCHANGED <<dir, files, args, fixture_path, json, off, stdout, calls, pre,
                   preOut, dirSeen, prevCall, finished, openSaw, rtVars>>

\* One write(2) of write_all transferring n bytes of what is left of json.
WriteBytes(p, n) ==
    /\ files' = [files EXCEPT ![fixture_path[p]].data =
                    WriteAt(@, off[p], SubSeq(json[p], off[p] + 1, off[p] + n))]
    /\ off' = [off EXCEPT ![p] = @ + n]

\* fs::write, second half: a write(2) that transfers all that is left.
WriteAll(p) ==
    /\ pc[p] = "write"
    /\ WriteBytes(p, Len(json[p]) - off[p])
    /\ finished' = Append(finished, p)
    /\ pc' = [pc EXCEPT ![p] = "print"]
    /\ UNCHANGED <<dir, args, fixture_path, json, result, errAt, stdout, calls, pre,
                   preOut, dirSeen, prevCall, writeFailed, openSaw, rtVars>>

\* A write(2) that transfers less than all: write_all goes round again.
WriteShort(p) ==
    /\ pc[p] = "write"
    /\ ShortWrite < Len(json[p]) - off[p]
    /\ WriteBytes(p, ShortWrite)
    /\ UNCHANGED <<dir, pc, args, fixture_path, json, result, errAt, stdout, calls,
                   pre, preOut, dirSeen, prevCall, writeFailed, finished, openSaw,
                   rtVars>>

\* fs::write fails in a write(2): what the file holds by then stays.
WriteErr(p) ==
    /\ pc[p] = "write"
    /\ Propagate(p, "write")
    /\ writeFailed' = TRUE
    /\ UNCHANGED <<dir, files, args, fixture_path, json, off, stdout, calls, pre,
                   preOut, dirSeen, prevCall, finished, openSaw, rtVars>>

\* println!("Proof fixture created at: {}", ...); Ok(())
PrintAndReturn(p) ==
    /\ pc[p] = "print"
    /\ stdout' = Append(stdout, <<"fixtures", fixture_path[p]>>)
    /\ pc' = [pc EXCEPT ![p] = "idle"]
    /\ result' = [result EXCEPT ![p] = "Ok"]
    /\ UNCHANGED <<dir, files, args, fixture_path, json, off, errAt, calls, pre,
                   preOut, dirSeen, prevCall, writeFailed, finished, openSaw, rtVars>>

Step(p) ==
    \/ CreateDirAllOk(p)
    \/ CreateDirAllErr(p)
    \/ CreateDirDenied(p)
    \/ Serialize(p)
    \/ Open(p)
    \/ OpenErr(p)
    \/ WriteAll(p)
    \/ WriteShort(p)
    \/ WriteErr(p)
    \/ PrintAndReturn(p)

\* The file system before the first call: no fixtures path, a directory
\* holding a file of somebody else, or a plain file in the way.
InitialFiles(d) == [n \in Names |-> IF d = "dir" /\ n = "README.md" THEN ReadmeFile ELSE Absent]

FsInit ==
    /\ dir \in {"absent", "dir", "file"}
    /\ files = InitialFiles(dir)
    /\ fixture_path = [p \in Procs |-> "none"]
    /\ json = [p \in Procs |-> <<>>]
    /\ off = [p \in Procs |-> 0]
    /\ result = [p \in Procs |-> "none"]
    /\ errAt = [p \in Procs |-> "none"]
    /\ stdout = <<>>
    /\ pre = [p \in Procs |-> files]
    /\ preOut = [p \in Procs |-> <<>>]
    /\ dirSeen = [p \in Procs |-> "none"]
    /\ prevCall = NoCall
    /\ writeFailed = FALSE
    /\ finished = <<>>
    /\ openSaw = [p \in Procs |-> {}]

RtOff ==
    /\ t_pc = "off"
    /\ t_fixture = ProofFixture(<<>>, <<>>, <<>>, "Plonk")
    /\ t_json = <<>>
    /\ t_deserialized = NoFixture

\* Sequential use: one call after the other, as in examples/create_fixtures.rs.
Init ==
    /\ FsInit
    /\ pc = [p \in Procs |-> "idle"]
    /\ args = [p \in Procs |-> NoArgs]
    /\ calls = 0
    /\ RtOff

Next == \E p \in SeqProcs : Call(p) \/ Step(p)

Spec == Init /\ [][Next]_vars

\* Two calls running at the same time, each entered once.
InitConc ==
    /\ FsInit
    /\ pc = [p \in Procs |-> "create_dir_all"]
    /\ args \in [Procs -> {CallArgs(pl, s) : pl \in Payloads, s \in ProofSystem}]
    /\ calls = Cardinality(Procs)
    /\ RtOff

NextConc == \E p \in Procs : Step(p)

SpecConc == InitConc /\ [][NextConc]_vars

(***************************************************************************)
(* The unit tests: serialize, then deserialize                            *)
(***************************************************************************)
InitRt ==
    /\ FsInit
    /\ dir = "absent"
    /\ pc = [p \in Procs |-> "idle"]
    /\ args = [p \in Procs |-> NoArgs]
    /\ calls = 0
    /\ t_pc = "start"
    /\ t_fixture \in {ProofFixture(a, b, c, s) :
                        a \in ByteSeqs, b \in ByteSeqs, c \in ByteSeqs, s \in ProofSystem}
    /\ t_json = <<>>
    /\ t_deserialized = NoFixture

\* let json = serde_json::to_string(&fixture).unwrap();
FixtureToString ==
    /\ t_pc = "start"
    /\ t_json' = to_string(t_fixture)
    /\ t_pc' = "fixture_json"
    /\ UNCHANGED <<t_fixture, t_deserialized, fsVars>>

\* let json = serde_json::to_string_pretty(&fixture)?;
FixtureToStringPretty ==
    /\ t_pc = "start"
    /\ t_json' = to_string_pretty(t_fixture)
    /\ t_pc' = "fixture_json"
    /\ UNCHANGED <<t_fixture, t_deserialized, fsVars>>

\* let deserialized: ProofFixture = serde_json::from_str(&json).unwrap();
FixtureFromStr ==
    /\ t_pc = "fixture_json"
    /\ t_deserialized' = from_str(t_json)
    /\ t_pc' = "fixture_done"
    /\ UNCHANGED <<t_fixture, t_json, fsVars>>

\* let json = serde_json::to_string(&system).unwrap();
SystemToString ==
    /\ t_pc = "start"
    /\ t_json' = to_string_system(t_fixture.system)
    /\ t_pc' = "system_json"
    /\ UNCHANGED <<t_fixture, t_deserialized, fsVars>>

\* let deserialized: ProofSystem = serde_json::from_str(&json).unwrap();
SystemFromStr ==
    /\ t_pc = "system_json"
    /\ t_deserialized' = from_str_system(t_json)
    /\ t_pc' = "system_done"
    /\ UNCHANGED <<t_fixture, t_json, fsVars>>

NextRt ==
    \/ FixtureToString
    \/ FixtureToStringPretty
    \/ FixtureFromStr
    \/ SystemToString
    \/ SystemFromStr

SpecRt == InitRt /\ [][NextRt]_vars

(***************************************************************************)
(* Properties                                                              *)
(***************************************************************************)
\* The file each tag is documented to own.
ClaimedFile(system) ==
    CASE system = "Plonk" -> PlonkFile
      [] system = "Groth16" -> Groth16File
      [] system = "STARK" -> StarkFile
      [] OTHER -> "none"

\* The complete text a call with arguments a is to leave in its file.
TextOf(a) == to_string_pretty(MakeFixture(a))

ReturnedOk(p) == pc[p] = "idle" /\ result[p] = "Ok"

\* sub occurs in s as a run of consecutive characters.
Contains(s, sub) ==
    \E i \in 0..(Len(s) - Len(sub)) : SubSeq(s, i + 1, i + Len(sub)) = sub

EmptyArrayOf(field) == SerializeString(FieldName(field)) \o <<":", " ", "[", "]">>

\* C1: a call writes only to the path mapped from its tag (Plonk ->
\* proof_fixture_plonk.json, Groth16 -> proof_fixture_groth16.json, STARK ->
\* proof_fixture_STARK.json), the three paths are pairwise distinct, and no
\* step creates or changes a file of any other name in fixtures/.
C1_FilenameDeterminism ==
    /\ [](/\ \A p \in Procs : pc[p] \in {"open", "write", "print"} =>
                fixture_path[p] = ClaimedFile(args[p].system)
          /\ \A s1, s2 \in ProofSystem : s1 # s2 => FileName(s1) # FileName(s2)
          /\ \A m \in 1..Len(stdout) : stdout[m][2] \in FixtureFiles)
    /\ [][\A n \in Names : files'[n] # files[n] => n \in FixtureFiles]_vars

C1_Witness ==
    /\ \A n \in FixtureFiles : files[n].exists
    /\ files["README.md"].exists
    /\ Len(stdout) = 3
    /\ ReturnedOk("p1")

\* C2: after two successful calls in a row with the same tag, the file holds
\* exactly the second call's text: nothing of the first is left, also when
\* the second text is the shorter one.
C2_Overwrite ==
    \A p \in SeqProcs :
        (ReturnedOk(p) /\ prevCall.result = "Ok" /\ prevCall.args.system = args[p].system)
        => LET f == files[ClaimedFile(args[p].system)]
           IN  /\ f.exists
               /\ f.data = TextOf(args[p])
               /\ prevCall.args # args[p] => f.data # TextOf(prevCall.args)

C2_Witness ==
    /\ ReturnedOk("p1")
    /\ prevCall.result = "Ok"
    /\ prevCall.args.system = args["p1"].system
    /\ Len(TextOf(args["p1"])) < Len(TextOf(prevCall.args))

\* C3: when a call returns Ok, the file mapped from its tag holds a record
\* whose proof, public_values and vk are the input byte vectors unchanged (an
\* empty one stored as []), whose system is the input tag, with the fields in
\* the order proof, public_values, vk, system.
C3_RecordWritten ==
    \A p \in SeqProcs :
        ReturnedOk(p)
        => LET f == files[ClaimedFile(args[p].system)]
               r == from_str(f.data)
           IN  /\ f.exists
               /\ r.ok
               /\ r.proof = args[p].proof.proof
               /\ r.public_values = args[p].proof.public_values
               /\ r.vk = args[p].vk.vk
               /\ r.system = args[p].system
               /\ r.keys = <<"proof", "public_values", "vk", "system">>
               /\ args[p].proof.proof = <<>> => Contains(f.data, EmptyArrayOf("proof"))
               /\ args[p].proof.public_values = <<>>
                    => Contains(f.data, EmptyArrayOf("public_values"))
               /\ args[p].vk.vk = <<>> => Contains(f.data, EmptyArrayOf("vk"))

C3_Witness ==
    /\ ReturnedOk("p1")
    /\ args["p1"].proof.public_values = <<>>
    /\ args["p1"].proof.proof # <<>>
    /\ args["p1"].vk.vk # args["p1"].proof.proof

\* C4: a ProofFixture serialized to JSON (compact or pretty) deserializes to
\* a record equal to it in all four fields, and a ProofSystem tag serialized
\* alone deserializes to the same tag.
C4_RoundTrip ==
    /\ t_pc = "fixture_done" =>
            /\ t_deserialized.ok
            /\ t_deserialized.proof = t_fixture.proof
            /\ t_deserialized.public_values = t_fixture.public_values
            /\ t_deserialized.vk = t_fixture.vk
            /\ t_deserialized.system = t_fixture.system
    /\ t_pc = "system_done" =>
            /\ t_deserialized.ok
            /\ t_deserialized.system = t_fixture.system

C4_Witness ==
    /\ t_pc = "fixture_done"
    /\ t_deserialized.ok
    /\ t_fixture.proof = <<>>
    /\ t_fixture.vk # <<>>
    /\ t_fixture.system = "STARK"
    /\ Contains(t_json, <<NL>>)

\* C5: a call for tag T leaves every file but the one mapped from T as it was
\* when the call started, so after calls for two different tags each file
\* holds the text of the call for its own tag.
C5_Frame ==
    \A p \in SeqProcs :
        /\ args[p].system \in ProofSystem =>
                \A n \in Names \ {ClaimedFile(args[p].system)} : files[n] = pre[p][n]
        /\ (ReturnedOk(p) /\ prevCall.result = "Ok"
                /\ prevCall.args.system # args[p].system)
           => /\ files[ClaimedFile(args[p].system)].data = TextOf(args[p])
              /\ files[ClaimedFile(prevCall.args.system)].data = TextOf(prevCall.args)

C5_Witness ==
    /\ ReturnedOk("p1")
    /\ prevCall.result = "Ok"
    /\ prevCall.args.system = "Plonk"
    /\ args["p1"].system = "Groth16"
    /\ files[PlonkFile].exists
    /\ files[Groth16File].exists

\* C6: create_dir_all never fails because the directory is already there; a
\* call that finds it there returns Ok with the same file contents as a call
\* that had to create it, and leaves the other files of the directory alone.
C6_IdempotentDir ==
    \A p \in SeqProcs :
        /\ errAt[p] = "create_dir_all" => dirSeen[p] # "dir"
        /\ ReturnedOk(p) =>
            /\ dirSeen[p] \in {"absent", "dir"}
            /\ dir = "dir"
            /\ files[ClaimedFile(args[p].system)] =
                    [exists |-> TRUE, data |-> TextOf(args[p])]
            /\ \A n \in Names \ {ClaimedFile(args[p].system)} : files[n] = pre[p][n]

C6_Witness ==
    /\ ReturnedOk("p1")
    /\ dirSeen["p1"] = "dir"
    /\ files["README.md"].exists
    /\ prevCall.result = "Ok"

\* C7: a failing step ends the call at once with Err (no retry, no recovery,
\* no confirmation printed); when the failing step is the directory creation
\* or the serialization (or the open that precedes the first write), every
\* file is as it was when the call started.
C7_ErrorsPropagate ==
    \A p \in SeqProcs :
        /\ errAt[p] # "none" =>
            /\ pc[p] = "idle"
            /\ result[p] = "Err"
            /\ stdout = preOut[p]
        /\ result[p] = "Err" => errAt[p] \in {"create_dir_all", "serialize", "open", "write"}
        /\ errAt[p] \in {"create_dir_all", "serialize", "open"} => files = pre[p]

C7_Witness ==
    /\ errAt["p1"] = "create_dir_all"
    /\ result["p1"] = "Err"
    /\ dir = "file"
    /\ prevCall.result = "Err"

\* The two calls of a concurrent run, p the one whose write completed last.
BothOkSameTag(p, q) ==
    /\ p # q
    /\ ReturnedOk(p) /\ ReturnedOk(q)
    /\ args[p].system = args[q].system
    /\ finished = <<q, p>>

\* C8 (as claimed): when two concurrent calls with the same tag both succeed,
\* the file holds exactly the complete text of the call that finished writing
\* last, in every interleaving.
C8_LastWriterWins ==
    \A p, q \in Procs :
        BothOkSameTag(p, q)
        => files[ClaimedFile(args[p].system)].data = TextOf(args[p])

\* C8 (amended): the file holds exactly the last finisher's text when that
\* call opened the file after the other had finished writing; in any
\* interleaving the content is at least as long as the last finisher's text,
\* at most as long as the longer text, and each byte is the byte of one of the
\* two texts at that offset or a zero byte of a hole.
C8_LastWriterWinsWhenNotInterleaved ==
    \A p, q \in Procs :
        BothOkSameTag(p, q)
        => LET d == files[ClaimedFile(args[p].system)].data
               tp == TextOf(args[p])
               tq == TextOf(args[q])
           IN  /\ q \in openSaw[p] => d = tp
               /\ Len(d) >= Len(tp)
               /\ Len(d) <= Len(tp) \/ Len(d) <= Len(tq)
               /\ \A i \in 1..Len(d) : d[i] \in {CharAt(tp, i), CharAt(tq, i), NUL}

C8_Witness ==
    \E p, q \in Procs :
        /\ BothOkSameTag(p, q)
        /\ files[ClaimedFile(args[p].system)].data # TextOf(args[p])
        /\ files[ClaimedFile(args[p].system)].data # TextOf(args[q])

\* C9: two concurrent calls with different tags do not disturb each other:
\* neither fails in create_dir_all because the other created the directory
\* first, and a call that returned Ok has its own complete text in its file
\* whatever the other call is doing.
C9_DistinctTagsIndependent ==
    \A p, q \in Procs :
        (p # q /\ args[p].system # args[q].system)
        => /\ errAt[p] = "create_dir_all" => dirSeen[p] # "dir"
           /\ ReturnedOk(p) =>
                files[ClaimedFile(args[p].system)] =
                    [exists |-> TRUE, data |-> TextOf(args[p])]

C9_Witness ==
    /\ ReturnedOk("p1") /\ ReturnedOk("p2")
    /\ args["p1"].system # args["p2"].system
    /\ dirSeen["p1"] = "absent"
    /\ dirSeen["p2"] = "dir"
    /\ \E m \in 1..Len(finished) : finished[m] = "p2" /\ ~("p2" \in openSaw["p1"])

\* C10: as long as no fs::write has failed, between calls every fixture file
\* that exists holds one complete record whose system is the tag the file
\* name is mapped from; and no step ever removes a file.
C10_FilesMatchTags ==
    /\ []((~writeFailed /\ \A p \in SeqProcs : pc[p] = "idle")
            => \A s \in ProofSystem :
                    files[ClaimedFile(s)].exists
                    => /\ from_str(files[ClaimedFile(s)].data).ok
                       /\ from_str(files[ClaimedFile(s)].data).system = s)
    /\ [][\A n \in Names : files[n].exists => files'[n].exists]_vars

C10_Witness ==
    /\ ~writeFailed
    /\ pc["p1"] = "idle"
    /\ files[StarkFile].exists
    /\ files[Groth16File].exists

====
